---- MODULE Spec2Model ----
(***************************************************************************)
(* A model of the notebook simple_los_decomposition_berkeley_landslides:   *)
(* its code cells, run in document order, as a state machine over the      *)
(* kernel's variables.                                                     *)
(*                                                                         *)
(* Numbers.  The notebook computes in float64.  Here                       *)
(*  - angles are whole degrees (np.radians followed by np.sin / np.cos is  *)
(*    one table lookup);                                                   *)
(*  - LOS-vector components and the entries of P are fixed-point integers  *)
(*    counting 1/Scale, every product of two of them rounded to the        *)
(*    nearest unit as float64 rounds to the nearest double;                *)
(*  - observations are integers counting 0.1 mm/yr;                        *)
(*  - PTPinv is the exact inverse <<adjugate, determinant>> of the integer *)
(*    matrix P^T P, and u is a pair of exact fractions <<num, den>> in     *)
(*    observation units.                                                   *)
(* Where float64 rounding decides the outcome (np.linalg.inv of a singular *)
(* matrix) the model takes every outcome rounding can produce.             *)
(***************************************************************************)
EXTENDS Integers, Sequences, FiniteSets, TLC

VARIABLES pc, err, asc_azi, asc_inc, dsc_azi, dsc_inc, p_asc, p_dsc, P,
          r_asc_all, r_dsc_all, PTPinv, i, r, u, out, reruns

\* the kernel of process_quadtree_output.ipynb and the files it writes
VARIABLES qpc, sc, qt, reflat, reflon, refutm, xyll, losx, losy, losz,
          dataptid, xkm, ykm, okinv_data, okinv_data_ll, files

qvars == <<qpc, sc, qt, reflat, reflon, refutm, xyll, losx, losy, losz,
           dataptid, xkm, ykm, okinv_data, okinv_data_ll, files>>

\* the kernel of simple_los_decomposition_berkeley_landslides.ipynb
dvars == <<pc, err, asc_azi, asc_inc, dsc_azi, dsc_inc, p_asc, p_dsc, P,
           r_asc_all, r_dsc_all, PTPinv, i, r, u, out, reruns>>

vars == <<pc, err, asc_azi, asc_inc, dsc_azi, dsc_inc, p_asc, p_dsc, P,
          r_asc_all, r_dsc_all, PTPinv, i, r, u, out, reruns, qvars>>

----------------------------------------------------------------------------
(* Arithmetic *)

Abs(x) == IF x < 0 THEN -x ELSE x

RECURSIVE GCD(_, _)
GCD(a, b) == IF b = 0 THEN a ELSE GCD(b, a % b)

\* n/d rounded to the nearest integer, ties away from zero (d > 0)
RoundDiv(n, d) ==
  LET q == (2 * Abs(n) + d) \div (2 * d)
  IN IF n < 0 THEN -q ELSE q

\* n/d rounded to the nearest integer, ties to even (d > 0)
RoundHalfEven(n, d) ==
  LET q == n \div d
      m == n % d
  IN IF 2 * m < d THEN q
     ELSE IF 2 * m > d THEN q + 1
     ELSE IF q % 2 = 0 THEN q ELSE q + 1

\* the fraction k*n/d in lowest terms with a positive denominator (d # 0)
Frac(k, n, d) ==
  LET g1 == GCD(Abs(n), Abs(d))
      n1 == (IF d < 0 THEN -n ELSE n) \div g1
      d1 == Abs(d) \div g1
      n2 == k * n1
      g2 == GCD(Abs(n2), d1)
  IN <<n2 \div g2, d1 \div g2>>

----------------------------------------------------------------------------
(* np.sin, np.cos of np.radians(deg) *)

\* Scale * sin(d degrees), d = 0..90, rounded to the nearest unit
SinTable ==
  <<0, 2, 3, 5, 7, 9, 10, 12, 14, 16, 17, 19, 21, 22, 24, 26, 28, 29, 31, 33,
    34, 36, 37, 39, 41, 42, 44, 45, 47, 48, 50, 52, 53, 54, 56, 57, 59, 60, 62,
    63, 64, 66, 67, 68, 69, 71, 72, 73, 74, 75, 77, 78, 79, 80, 81, 82, 83, 84,
    85, 86, 87, 87, 88, 89, 90, 91, 91, 92, 93, 93, 94, 95, 95, 96, 96, 97, 97,
    97, 98, 98, 98, 99, 99, 99, 99, 100, 100, 100, 100, 100, 100>>

\* the fixed-point representation of 1.0 (sin 90 degrees)
Scale == SinTable[91]

Sin(deg) ==
  LET d == deg % 360
  IN IF d <= 90 THEN SinTable[d + 1]
     ELSE IF d <= 180 THEN SinTable[180 - d + 1]
     ELSE IF d <= 270 THEN -SinTable[d - 180 + 1]
     ELSE -SinTable[360 - d + 1]

Cos(deg) == Sin(deg + 90)

\* the float64 product of two fixed-point values
FMul(a, b) == RoundDiv(a * b, Scale)

----------------------------------------------------------------------------
(* The LOS vector [east, north, vertical] *)

LosVector_PlusCos(azi, inc) ==
  <<FMul(Cos(azi), Sin(inc)), -FMul(Sin(azi), Sin(inc)), Cos(inc)>>

LosVector_CosNorth(azi, inc) ==
  <<FMul(Cos(azi), Sin(inc)), -FMul(Sin(azi), Cos(inc)), -Cos(inc)>>

LosVector(azi, inc) ==
  <<FMul(Cos(azi), Sin(inc)), -FMul(Sin(azi), Sin(inc)), -Cos(inc)>>

NormSq(p) == p[1] * p[1] + p[2] * p[2] + p[3] * p[3]

----------------------------------------------------------------------------
(* 2x2 matrices <<row1, row2>> and 2-vectors *)

Transpose(A) == <<<<A[1][1], A[2][1]>>, <<A[1][2], A[2][2]>>>>

MatMul(A, B) ==
  <<<<A[1][1] * B[1][1] + A[1][2] * B[2][1], A[1][1] * B[1][2] + A[1][2] * B[2][2]>>,
    <<A[2][1] * B[1][1] + A[2][2] * B[2][1], A[2][1] * B[1][2] + A[2][2] * B[2][2]>>>>

MatVec(A, v) ==
  <<A[1][1] * v[1] + A[1][2] * v[2], A[2][1] * v[1] + A[2][2] * v[2]>>

Det2(A) == A[1][1] * A[2][2] - A[1][2] * A[2][1]

Adj2(A) == <<<<A[2][2], -A[1][2]>>, <<-A[2][1], A[1][1]>>>>

\* np.vstack(([p_hat_asc, p_hat_dsc])) of the east and vertical components
DesignMatrix_North(pa, pd) == <<<<pa[1], pa[2]>>, <<pd[1], pd[2]>>>>

DesignMatrix(pa, pd) == <<<<pa[1], pa[3]>>, <<pd[1], pd[3]>>>>

\* the exact inverse of an invertible integer matrix: adjugate over determinant
Inverse_NoSign(A) == <<<<<<A[2][2], A[1][2]>>, <<A[2][1], A[1][1]>>>>, Det2(A)>>

Inverse(A) == <<Adj2(A), Det2(A)>>

\* What float64 rounding can leave of the inverse of a singular matrix: LAPACK
\* finds no exactly-zero pivot and returns a matrix of rounding residue.
GarbageInverses ==
  { <<<<<<1, 0>>, <<0, 1>>>>, 1>>, <<<<<<1, -1>>, <<-1, 1>>>>, -1>> }

\* np.linalg.inv(A): <<>> stands for raising numpy.linalg.LinAlgError
InvOutcomes(A) ==
  IF Det2(A) # 0 THEN {Inverse(A)} ELSE {<<>>} \cup GarbageInverses

\* np.matmul(PTPinv, np.matmul(P.T, r)): the two components as fractions,
\* in observation units (P counts 1/Scale, so P^T P counts 1/Scale^2)
Solve(Pm, Pinv, rv) ==
  LET t == MatVec(Transpose(Pm), rv)
      n == MatVec(Pinv[1], t)
  IN <<Frac(Scale, n[1], Pinv[2]), Frac(Scale, n[2], Pinv[2])>>

\* the two printed lines of one landslide: its number and "{:5.1f}", "{:4.1f}"
\* of u[0,0] and u[1,0], as integers counting 0.1 mm/yr
PrintLine(k, uv) ==
  <<k, RoundHalfEven(uv[1][1], uv[1][2]), RoundHalfEven(uv[2][1], uv[2][2])>>

----------------------------------------------------------------------------
(* The values entered in the cells *)

DocAscAzi == 191
DocAscInc == 23
DocDscAzi == 348
DocDscInc == 34

\* r_asc_all, r_dsc_all of the notebook, in 0.1 mm/yr
DocRAsc == <<-72, -43, -46, -28, -121>>
DocRDsc == <<122, 27, 53, 50, 120>>

\* the output recorded in the notebook for the five landslides, in 0.1 mm/yr
DocOutput ==
  <<<<1, -204, -48>>, <<2, -75, 2>>, <<3, -105, -14>>, <<4, -82, -20>>,
    <<5, -257, -23>>>>

MaxTargets == 2

AziInputs == {DocAscAzi, DocDscAzi, 0, 169}
IncInputs == {DocAscInc, DocDscInc, 0, 120}
ObsValues == {-72, 122}
MTrue == {<<1, 0>>, <<-2, 1>>, <<3, -2>>}

SeqsUpTo(S, n) == UNION {[1..k -> S] : k \in 0..n}

\* exact synthetic observations r = P m of one target
Synthetic(aa, ai, da, di, m) ==
  MatVec(DesignMatrix(LosVector(aa, ai), LosVector(da, di)), m)

ObsInputs(aa, ai, da, di) ==
  {<<DocRAsc, DocRDsc>>}
    \cup (SeqsUpTo(ObsValues, MaxTargets) \X SeqsUpTo(ObsValues, MaxTargets))
    \cup {<<<<Synthetic(aa, ai, da, di, m)[1]>>, <<Synthetic(aa, ai, da, di, m)[2]>>>> :
            m \in MTrue}

----------------------------------------------------------------------------
(* The kernel before the first cell runs *)

Fresh ==
  /\ pc = "behavioral_bruce"
  /\ err = "none"
  /\ p_asc = <<>>
  /\ p_dsc = <<>>
  /\ P = <<>>
  /\ PTPinv = <<>>
  /\ i = 0
  /\ r = <<>>
  /\ u = <<>>
  /\ out = <<>>

\* no cell of process_quadtree_output.ipynb has run: none of its names exists
\* and no file is written
NoNames ==
  /\ sc = <<>> /\ qt = <<>>
  /\ reflat = 0 /\ reflon = 0 /\ refutm = <<>>
  /\ xyll = <<>>
  /\ losx = <<>> /\ losy = <<>> /\ losz = <<>>
  /\ dataptid = <<>>
  /\ xkm = <<>> /\ ykm = <<>>
  /\ okinv_data = <<>> /\ okinv_data_ll = <<>>
  /\ files = <<>>

Unopened == qpc = "unopened" /\ NoNames

Init ==
  /\ asc_azi \in AziInputs
  /\ asc_inc \in IncInputs
  /\ dsc_azi \in AziInputs
  /\ dsc_inc \in IncInputs
  /\ \E o \in ObsInputs(asc_azi, asc_inc, dsc_azi, dsc_inc) :
       /\ r_asc_all = o[1]
       /\ r_dsc_all = o[2]
  /\ Fresh
  /\ reruns = 0
  /\ Unopened

----------------------------------------------------------------------------
(* The code cells *)

\* cell behavioral-bruce
behavioral_bruce ==
  /\ pc = "behavioral_bruce"
  /\ p_asc' = LosVector(asc_azi, asc_inc)
  /\ pc' = "greater_hierarchy"
  /\ UNCHANGED <<err, asc_azi, asc_inc, dsc_azi, dsc_inc, p_dsc, P,
                 r_asc_all, r_dsc_all, PTPinv, i, r, u, out>>
  /\ UNCHANGED <<reruns, qvars>>

\* cell greater-hierarchy
greater_hierarchy ==
  /\ pc = "greater_hierarchy"
  /\ p_dsc' = LosVector(dsc_azi, dsc_inc)
  /\ pc' = "circular_fever"
  /\ UNCHANGED <<err, asc_azi, asc_inc, dsc_azi, dsc_inc, p_asc, P,
                 r_asc_all, r_dsc_all, PTPinv, i, r, u, out>>
  /\ UNCHANGED <<reruns, qvars>>

\* a variant of circular-fever that checks the geometry before building P
circular_fever_Checked ==
  /\ pc = "circular_fever"
  /\ P' = DesignMatrix(p_asc, p_dsc)
  /\ IF Det2(DesignMatrix(p_asc, p_dsc)) = 0
       THEN err' = "DegenerateGeometryError" /\ pc' = "done"
       ELSE err' = err /\ pc' = "solar_triumph"
  /\ UNCHANGED <<asc_azi, asc_inc, dsc_azi, dsc_inc, p_asc, p_dsc,
                 r_asc_all, r_dsc_all, PTPinv, i, r, u, out>>
  /\ UNCHANGED <<reruns, qvars>>

\* cell circular-fever
circular_fever ==
  /\ pc = "circular_fever"
  /\ P' = DesignMatrix(p_asc, p_dsc)
  /\ pc' = "solar_triumph"
  /\ UNCHANGED <<err, asc_azi, asc_inc, dsc_azi, dsc_inc, p_asc, p_dsc,
                 r_asc_all, r_dsc_all, PTPinv, i, r, u, out>>
  /\ UNCHANGED <<reruns, qvars>>

\* cell solar-triumph: the arrays are the ones entered; PTPinv is inverted
\* here, and a LinAlgError ends the run
solar_triumph ==
  /\ pc = "solar_triumph"
  /\ \E inv \in InvOutcomes(MatMul(Transpose(P), P)) :
       /\ PTPinv' = inv
       /\ IF inv = <<>>
            THEN err' = "LinAlgError" /\ pc' = "done"
            ELSE err' = err /\ pc' = "fitted_billy"
  /\ UNCHANGED <<asc_azi, asc_inc, dsc_azi, dsc_inc, p_asc, p_dsc, P,
                 r_asc_all, r_dsc_all, i, r, u, out>>
  /\ UNCHANGED <<reruns, qvars>>

\* One pass of the body of the for loop of cell fitted-billy, for the 0-based
\* index i: r_asc_all[i] or r_dsc_all[i] out of range raises IndexError and
\* ends the run with what was printed so far.
LoopBody_FirstObs ==
  IF i + 1 > Len(r_asc_all) \/ i + 1 > Len(r_dsc_all)
    THEN /\ err' = "IndexError"
         /\ pc' = "done"
         /\ UNCHANGED <<i, r, u, out>>
    ELSE /\ r' = <<r_asc_all[1], r_dsc_all[1]>>
         /\ u' = Solve(P, PTPinv, r')
         /\ out' = Append(out, PrintLine(i + 1, u'))
         /\ i' = i + 1
         /\ UNCHANGED <<err, pc>>

LoopBody_StopAtShorter ==
  IF i + 1 > Len(r_asc_all) \/ i + 1 > Len(r_dsc_all)
    THEN /\ pc' = "done"
         /\ UNCHANGED <<err, i, r, u, out>>
    ELSE /\ r' = <<r_asc_all[i + 1], r_dsc_all[i + 1]>>
         /\ u' = Solve(P, PTPinv, r')
         /\ out' = Append(out, PrintLine(i + 1, u'))
         /\ i' = i + 1
         /\ UNCHANGED <<err, pc>>

LoopBody_DiscardOnError ==
  IF i + 1 > Len(r_asc_all) \/ i + 1 > Len(r_dsc_all)
    THEN /\ err' = "IndexError"
         /\ pc' = "done"
         /\ out' = <<>>
         /\ UNCHANGED <<i, r, u>>
    ELSE /\ r' = <<r_asc_all[i + 1], r_dsc_all[i + 1]>>
         /\ u' = Solve(P, PTPinv, r')
         /\ out' = Append(out, PrintLine(i + 1, u'))
         /\ i' = i + 1
         /\ UNCHANGED <<err, pc>>

LoopBody ==
  IF i + 1 > Len(r_asc_all) \/ i + 1 > Len(r_dsc_all)
    THEN /\ err' = "IndexError"
         /\ pc' = "done"
         /\ UNCHANGED <<i, r, u, out>>
    ELSE /\ r' = <<r_asc_all[i + 1], r_dsc_all[i + 1]>>
         /\ u' = Solve(P, PTPinv, r')
         /\ out' = Append(out, PrintLine(i + 1, u'))
         /\ i' = i + 1
         /\ UNCHANGED <<err, pc>>

\* range(len(r_asc_all)): the indices the loop still has to visit
LoopRange_OffByOne == i .. Len(r_asc_all)

LoopRange == i .. Len(r_asc_all) - 1

\* a variant of the iteration that zeroes the ascending observation it used
fitted_billy_iter_InPlace ==
  /\ pc = "fitted_billy"
  /\ LoopRange # {}
  /\ LoopBody
  /\ r_asc_all' = [r_asc_all EXCEPT ![i + 1] = 0]
  /\ UNCHANGED <<asc_azi, asc_inc, dsc_azi, dsc_inc, p_asc, p_dsc, P,
                 r_dsc_all, PTPinv>>
  /\ UNCHANGED <<reruns, qvars>>

\* cell fitted-billy, one step per iteration
fitted_billy_iter ==
  /\ pc = "fitted_billy"
  /\ LoopRange # {}
  /\ LoopBody
  /\ UNCHANGED <<asc_azi, asc_inc, dsc_azi, dsc_inc, p_asc, p_dsc, P,
                 r_asc_all, r_dsc_all, PTPinv>>
  /\ UNCHANGED <<reruns, qvars>>

\* cell fitted-billy: the range is exhausted and the cell ends
fitted_billy_end ==
  /\ pc = "fitted_billy"
  /\ LoopRange = {}
  /\ pc' = "done"
  /\ UNCHANGED <<err, asc_azi, asc_inc, dsc_azi, dsc_inc, p_asc, p_dsc, P,
                 r_asc_all, r_dsc_all, PTPinv, i, r, u, out>>
  /\ UNCHANGED <<reruns, qvars>>

Next ==
  \/ behavioral_bruce
  \/ greater_hierarchy
  \/ circular_fever
  \/ solar_triumph
  \/ fitted_billy_iter
  \/ fitted_billy_end

Spec == Init /\ [][Next]_vars

----------------------------------------------------------------------------
(* The LOS cells alone, over every whole-degree azimuth and incidence of the *)
(* ascending geometry                                                        *)

InitLos ==
  /\ asc_azi \in 0 .. 359
  /\ asc_inc \in 0 .. 359
  /\ dsc_azi = DocDscAzi
  /\ dsc_inc = DocDscInc
  /\ r_asc_all = DocRAsc
  /\ r_dsc_all = DocRDsc
  /\ Fresh
  /\ reruns = 0
  /\ Unopened

NextLos ==
  \/ behavioral_bruce
  \/ greater_hierarchy

SpecLos == InitLos /\ [][NextLos]_vars

----------------------------------------------------------------------------
(* Re-executing single cells in the live kernel, once every cell has run.   *)
(* A re-executed cell runs as a whole: the kernel takes one cell at a time. *)

MaxReruns == 2

\* every code cell has run once in document order (a degenerate geometry whose
\* inversion raised LinAlgError stopped the run before the loop)
Rerunnable == pc = "done" /\ PTPinv # <<>> /\ reruns < MaxReruns

\* a variant of behavioral-bruce that converts the angles it finds in place,
\* np.radians applied to angles that are already in radians
rerun_behavioral_bruce_InPlace ==
  /\ Rerunnable
  /\ p_asc' = LosVector(RoundDiv(asc_azi * 314, 180 * Scale),
                        RoundDiv(asc_inc * 314, 180 * Scale))
  /\ err' = "none"
  /\ reruns' = reruns + 1
  /\ UNCHANGED <<pc, asc_azi, asc_inc, dsc_azi, dsc_inc, p_dsc, P,
                 r_asc_all, r_dsc_all, PTPinv, i, r, u, out, qvars>>

\* cell behavioral-bruce again: the angles are assigned from the literals
rerun_behavioral_bruce ==
  /\ Rerunnable
  /\ p_asc' = LosVector(asc_azi, asc_inc)
  /\ err' = "none"
  /\ reruns' = reruns + 1
  /\ UNCHANGED <<pc, asc_azi, asc_inc, dsc_azi, dsc_inc, p_dsc, P,
                 r_asc_all, r_dsc_all, PTPinv, i, r, u, out, qvars>>

\* cell greater-hierarchy again
rerun_greater_hierarchy ==
  /\ Rerunnable
  /\ p_dsc' = LosVector(dsc_azi, dsc_inc)
  /\ err' = "none"
  /\ reruns' = reruns + 1
  /\ UNCHANGED <<pc, asc_azi, asc_inc, dsc_azi, dsc_inc, p_asc, P,
                 r_asc_all, r_dsc_all, PTPinv, i, r, u, out, qvars>>

\* cell circular-fever again
rerun_circular_fever ==
  /\ Rerunnable
  /\ P' = DesignMatrix(p_asc, p_dsc)
  /\ err' = "none"
  /\ reruns' = reruns + 1
  /\ UNCHANGED <<pc, asc_azi, asc_inc, dsc_azi, dsc_inc, p_asc, p_dsc,
                 r_asc_all, r_dsc_all, PTPinv, i, r, u, out, qvars>>

\* cell solar-triumph again: the arrays are assigned from the same literals,
\* and the float inversion of an unchanged matrix repeats its earlier outcome
rerun_solar_triumph ==
  /\ Rerunnable
  /\ \E inv \in InvOutcomes(MatMul(Transpose(P), P)) :
       /\ Det2(P) = 0 => inv = PTPinv
       /\ inv # <<>>
       /\ PTPinv' = inv
  /\ err' = "none"
  /\ reruns' = reruns + 1
  /\ UNCHANGED <<pc, asc_azi, asc_inc, dsc_azi, dsc_inc, p_asc, p_dsc, P,
                 r_asc_all, r_dsc_all, i, r, u, out, qvars>>

\* the number of iterations the loop completes before range(len(r_asc_all))
\* is exhausted or r_dsc_all[i] is out of range
Completed ==
  IF Len(r_dsc_all) < Len(r_asc_all) THEN Len(r_dsc_all) ELSE Len(r_asc_all)

\* what the whole loop prints from the current P, PTPinv and observations
LoopOutput ==
  [k \in 1 .. Completed |->
     PrintLine(k, Solve(P, PTPinv, <<r_asc_all[k], r_dsc_all[k]>>))]

\* cell fitted-billy again, the whole loop: the cell output is replaced
rerun_fitted_billy ==
  /\ Rerunnable
  /\ out' = LoopOutput
  /\ i' = Completed
  /\ IF Completed = 0
       THEN UNCHANGED <<r, u>>
       ELSE /\ r' = <<r_asc_all[Completed], r_dsc_all[Completed]>>
            /\ u' = Solve(P, PTPinv, r')
  /\ err' = IF Len(r_dsc_all) < Len(r_asc_all) THEN "IndexError" ELSE "none"
  /\ reruns' = reruns + 1
  /\ UNCHANGED <<pc, asc_azi, asc_inc, dsc_azi, dsc_inc, p_asc, p_dsc, P,
                 r_asc_all, r_dsc_all, PTPinv, qvars>>

NextRerun ==
  \/ behavioral_bruce
  \/ greater_hierarchy
  \/ circular_fever
  \/ solar_triumph
  \/ fitted_billy_iter
  \/ fitted_billy_end
  \/ rerun_behavioral_bruce
  \/ rerun_greater_hierarchy
  \/ rerun_circular_fever
  \/ rerun_solar_triumph
  \/ rerun_fitted_billy

SpecRerun == Init /\ [][NextRerun]_vars

----------------------------------------------------------------------------
(* process_quadtree_output.ipynb: the kite quadtree written as okinv tables. *)
(* Floats are fixed-point in units of 1/Scale, angles are whole degrees.     *)

MaxLeaves == 2

\* sc.frame: latitude and longitude of the lower-left corner
FrameInputs ==
  {[llLat |-> 3820, llLon |-> 3890], [llLat |-> -2050, llLon |-> -6860]}

\* one quadtree leaf: focal point offset (degrees east, north of the corner),
\* elevation theta and azimuth phi of the LOS, mean displacement
LeafInputs ==
  {[focal |-> <<12, 34>>, theta |-> 56, phi |-> -170, mean |-> 15],
   [focal |-> <<80, 5>>, theta |-> 50, phi |-> 190, mean |-> -30],
   [focal |-> <<250, 161>>, theta |-> 61, phi |-> 0, mean |-> 0],
   [focal |-> <<0, 0>>, theta |-> 90, phi |-> 10, mean |-> 207]}

\* the scenes Scene.load can return: a frame and a quadtree of 1..MaxLeaves leaves
SceneInputs ==
  {[frame |-> f,
    quadtree |-> [leaf_focal_points |-> [k \in DOMAIN l |-> l[k].focal],
                  leaf_thetas |-> [k \in DOMAIN l |-> l[k].theta],
                  leaf_phis |-> [k \in DOMAIN l |-> l[k].phi],
                  leaf_means |-> [k \in DOMAIN l |-> l[k].mean]]] :
     f \in FrameInputs, l \in SeqsUpTo(LeafInputs, MaxLeaves) \ {<<>>}}

\* utm.from_latlon for arrays of latitudes and longitudes: the zone is the one
\* of the first point; easting and northing in metres.  The transverse Mercator
\* series of the library is replaced by the equirectangular approximation about
\* the central meridian of the zone (111 km per degree).
From_latlon(lat, lon) ==
  LET zone == (lon[1] + 180 * Scale) \div (6 * Scale) + 1
      central == (zone * 6 - 183) * Scale
      east(k) == 500000 * Scale
                   + 1110 * (lon[k] - central) * Cos(RoundDiv(lat[k], Scale))
      north(k) == 111000 * lat[k]
                    + (IF lat[1] < 0 THEN 10000000 * Scale ELSE 0)
  IN <<[k \in DOMAIN lat |-> east(k)], [k \in DOMAIN lat |-> north(k)], zone>>

\* np.arange(start, stop)
Arange(start, stop) == [k \in 1 .. stop - start |-> start + k - 1]

DataPtId_ZeroBased(size) == Arange(0, size)

\* the id for each datapoint
DataPtId(size) == Arange(1, size + 1)

\* np.column_stack of equally long columns, every entry converted to float
ColumnStack(cols) ==
  [k \in DOMAIN cols[1] |-> [c \in DOMAIN cols |-> cols[c][k]]]

AsFloat(ints) == [k \in DOMAIN ints |-> ints[k] * Scale]

\* '%f': sign, whole part and six decimals of a float
Fmt_f(x) == <<x < 0, Abs(x) \div Scale, (Abs(x) % Scale) * (10^6 \div Scale)>>

\* '%d' of a float: the integer part
Fmt_d(x) == IF x < 0 THEN -(Abs(x) \div Scale) ELSE x \div Scale

\* np.savetxt(outfile, data, fmt='%f %f %f %f %f %f %d'): one line per row
Savetxt(data) ==
  [k \in DOMAIN data |->
     [c \in DOMAIN data[k] |->
        IF c = Len(data[k]) THEN Fmt_d(data[k][c]) ELSE Fmt_f(data[k][c])]]

\* outbase + ".okinv" and outbase + "_ll" + ".okinv"
OutfileKm == "elazig_asc.okinv"
OutfileLl == "elazig_asc_ll.okinv"

InitQuadtree ==
  /\ asc_azi = DocAscAzi
  /\ asc_inc = DocAscInc
  /\ dsc_azi = DocDscAzi
  /\ dsc_inc = DocDscInc
  /\ r_asc_all = DocRAsc
  /\ r_dsc_all = DocRDsc
  /\ Fresh
  /\ reruns = 0
  /\ qpc = "load"
  /\ NoNames

\* sc=Scene.load(inyml); qt=sc.quadtree
load ==
  /\ qpc = "load"
  /\ sc' \in SceneInputs
  /\ qt' = sc'.quadtree
  /\ qpc' = "reference"
  /\ UNCHANGED <<reflat, reflon, refutm, xyll, losx, losy, losz, dataptid,
                 xkm, ykm, okinv_data, okinv_data_ll, files>>
  /\ UNCHANGED dvars

\* the reference point, in lat-long and in utm
reference ==
  /\ qpc = "reference"
  /\ reflat' = sc.frame.llLat
  /\ reflon' = sc.frame.llLon
  /\ refutm' = From_latlon(<<reflat'>>, <<reflon'>>)
  /\ qpc' = "los_components"
  /\ UNCHANGED <<sc, qt, xyll, losx, losy, losz, dataptid,
                 xkm, ykm, okinv_data, okinv_data_ll, files>>
  /\ UNCHANGED dvars

\* positions in long-lat, LOS vector components and ids
los_components ==
  /\ qpc = "los_components"
  /\ xyll' = [k \in DOMAIN qt.leaf_focal_points |->
                <<qt.leaf_focal_points[k][1] + reflon,
                  qt.leaf_focal_points[k][2] + reflat>>]
  /\ losx' = [k \in DOMAIN qt.leaf_thetas |->
                FMul(Cos(qt.leaf_thetas[k]), -Cos(qt.leaf_phis[k]))]
  /\ losy' = [k \in DOMAIN qt.leaf_thetas |->
                FMul(Cos(qt.leaf_thetas[k]), -Sin(qt.leaf_phis[k]))]
  /\ losz' = [k \in DOMAIN qt.leaf_thetas |-> -Sin(qt.leaf_thetas[k])]
  /\ dataptid' = DataPtId(Len(losx'))
  /\ qpc' = "utm_km"
  /\ UNCHANGED <<sc, qt, reflat, reflon, refutm,
                 xkm, ykm, okinv_data, okinv_data_ll, files>>
  /\ UNCHANGED dvars

\* the lat-long coordinates converted to UTM km
utm_km ==
  /\ qpc = "utm_km"
  /\ LET xym == From_latlon([k \in DOMAIN xyll |-> xyll[k][2]],
                            [k \in DOMAIN xyll |-> xyll[k][1]])
     IN /\ xkm' = [k \in DOMAIN xym[1] |-> RoundDiv(xym[1][k], 1000)]
        /\ ykm' = [k \in DOMAIN xym[2] |-> RoundDiv(xym[2][k], 1000)]
  /\ qpc' = "plot"
  /\ UNCHANGED <<sc, qt, reflat, reflon, refutm, xyll, losx, losy, losz,
                 dataptid, okinv_data, okinv_data_ll, files>>
  /\ UNCHANGED dvars

\* the scatter plot of the points: no name is assigned
plot ==
  /\ qpc = "plot"
  /\ qpc' = "export"
  /\ UNCHANGED <<sc, qt, reflat, reflon, refutm, xyll, losx, losy, losz,
                 dataptid, xkm, ykm, okinv_data, okinv_data_ll, files>>
  /\ UNCHANGED dvars

\* okinv format in km and in lat-long, each saved to its file
export ==
  /\ qpc = "export"
  /\ okinv_data' = ColumnStack(<<xkm, ykm, qt.leaf_means, losx, losy, losz,
                                AsFloat(dataptid)>>)
  /\ okinv_data_ll' = ColumnStack(<<[k \in DOMAIN xyll |-> xyll[k][1]],
                                   [k \in DOMAIN xyll |-> xyll[k][2]],
                                   qt.leaf_means, losx, losy, losz,
                                   AsFloat(dataptid)>>)
  /\ files' = (OutfileKm :> Savetxt(okinv_data'))
                @@ (OutfileLl :> Savetxt(okinv_data_ll'))
  /\ qpc' = "done"
  /\ UNCHANGED <<sc, qt, reflat, reflon, refutm, xyll, losx, losy, losz,
                 dataptid, xkm, ykm>>
  /\ UNCHANGED dvars

NextQuadtree ==
  \/ load
  \/ reference
  \/ los_components
  \/ utm_km
  \/ plot
  \/ export

SpecQuadtree == InitQuadtree /\ [][NextQuadtree]_vars

----------------------------------------------------------------------------
(* Properties *)

Ran(cell) ==
  CASE cell = "circular_fever" -> pc \in {"solar_triumph", "fitted_billy", "done"}
    [] cell = "solar_triumph" -> pc \in {"fitted_billy", "done"}

Invertible == Len(P) = 2 /\ Det2(P) # 0
Degenerate == Len(P) = 2 /\ Det2(P) = 0

\* the solution of P m = r by Cramer's rule, in observation units
ExactSolution(Pm, rv) ==
  LET n == MatVec(Adj2(Pm), rv)
  IN <<Frac(Scale, n[1], Det2(Pm)), Frac(Scale, n[2], Det2(Pm))>>

\* decompose(design_matrix, observations) for one target, from P alone
Decompose(Pm, rv) == Solve(Pm, Inverse(MatMul(Transpose(Pm), Pm)), rv)

\* C1: with an invertible P, the u computed for a target is the exact solution
\* of P u = r (zero residual), and when r = P m_true it is m_true itself
\* (u is in observation units, P counts 1/Scale, hence the factor Scale).
C1_RoundTrip ==
  (Invertible /\ Len(u) = 2) =>
    /\ u = ExactSolution(P, r)
    /\ \A m \in MTrue :
         r = MatVec(P, m) => u = <<<<Scale * m[1], 1>>, <<Scale * m[2], 1>>>>

C1_Witness ==
  /\ pc = "done"
  /\ Invertible
  /\ Len(out) = 1
  /\ \E m \in MTrue :
       /\ m[1] # 0 /\ m[2] # 0
       /\ r = MatVec(P, m)
       /\ u = <<<<Scale * m[1], 1>>, <<Scale * m[2], 1>>>>

\* C2 as amended: a degenerate P is built without any error; no
\* DegenerateGeometryError is ever raised; the only rejection is the
\* LinAlgError of the inversion itself, which leaves PTPinv unset and nothing
\* printed; an inversion that returns anyway returns rounding residue.
C2_DegenerateOnlyLinAlgError ==
  Degenerate =>
    /\ err \in {"none", "LinAlgError", "IndexError"}
    /\ (pc = "solar_triumph" => err = "none")
    /\ (err = "LinAlgError" <=> (pc = "done" /\ PTPinv = <<>>))
    /\ (err = "LinAlgError" => out = <<>>)
    /\ (PTPinv # <<>> => PTPinv \in GarbageInverses)

C2_Witness ==
  /\ Degenerate
  /\ p_asc # p_dsc
  /\ pc = "done"
  /\ err = "LinAlgError"
  /\ out = <<>>

\* C2 as stated: once P is degenerate the run has ended in a
\* DegenerateGeometryError, raised before the inversion, with nothing printed
C2_Original ==
  (Degenerate /\ Ran("circular_fever")) =>
    (err = "DegenerateGeometryError" /\ out = <<>>)

IsDocumented ==
  /\ asc_azi = DocAscAzi /\ asc_inc = DocAscInc
  /\ dsc_azi = DocDscAzi /\ dsc_inc = DocDscInc
  /\ r_asc_all = DocRAsc /\ r_dsc_all = DocRDsc

\* C3 as stated: the documented angles and observations print the five
\* documented (east, vertical) pairs, each component within 0.1 mm/yr
C3_Documented ==
  (IsDocumented /\ pc = "done") =>
    /\ Len(out) = Len(DocOutput)
    /\ \A k \in 1 .. Len(DocOutput) :
         /\ out[k][1] = DocOutput[k][1]
         /\ Abs(out[k][2] - DocOutput[k][2]) <= 1
         /\ Abs(out[k][3] - DocOutput[k][3]) <= 1

\* C4: the k-th printed result is the decomposition of the k-th observation
\* pair alone, in input order, and a run over K complete targets prints K
\* results.
C4_OrderAndIndependence ==
  Invertible =>
    /\ \A k \in 1 .. Len(out) :
         out[k] = PrintLine(k, Decompose(P, <<r_asc_all[k], r_dsc_all[k]>>))
    /\ (pc = "done" /\ Len(r_asc_all) = Len(r_dsc_all)) =>
         (err = "none" /\ Len(out) = Len(r_asc_all))

C4_Witness ==
  /\ Invertible
  /\ pc = "done"
  /\ Len(out) = 2
  /\ r_asc_all[1] # r_asc_all[2]
  /\ out[1][2] # out[2][2]

\* the tolerance of the unit norm in fixed point: three units of 1/Scale on
\* the squared norm Scale^2
NormTol == 3 * Scale

AxisAngle(d) == d % 90 = 0

\* C5: every LOS vector computed has squared norm 1 within the model's
\* rounding (NormTol), and exactly 1 where the table is exact
C5_UnitNorm ==
  /\ Len(p_asc) = 3 =>
       /\ Abs(NormSq(p_asc) - Scale * Scale) <= NormTol
       /\ (AxisAngle(asc_azi) /\ AxisAngle(asc_inc)) => NormSq(p_asc) = Scale * Scale
  /\ Len(p_dsc) = 3 =>
       /\ Abs(NormSq(p_dsc) - Scale * Scale) <= NormTol
       /\ (AxisAngle(dsc_azi) /\ AxisAngle(dsc_inc)) => NormSq(p_dsc) = Scale * Scale

C5_Witness ==
  /\ Len(p_asc) = 3
  /\ asc_azi = 217 /\ asc_inc = 58
  /\ p_asc[1] # 0 /\ p_asc[2] # 0 /\ p_asc[3] # 0
  /\ Abs(NormSq(p_asc) - Scale * Scale) <= NormTol

InversionDone == pc = "done" /\ err # "LinAlgError"

\* C7 as amended: with r_dsc_all shorter the loop raises IndexError at the
\* first missing index, after printing the results before it; with r_dsc_all
\* longer the run completes without error and the surplus is ignored.
C7_MismatchIndexErrorOrIgnored ==
  InversionDone =>
    /\ Len(r_dsc_all) < Len(r_asc_all) =>
         (err = "IndexError" /\ Len(out) = Len(r_dsc_all))
    /\ Len(r_dsc_all) > Len(r_asc_all) =>
         (err = "none" /\ Len(out) = Len(r_asc_all))

C7_Witness ==
  /\ pc = "done"
  /\ Invertible
  /\ Len(r_asc_all) = 2 /\ Len(r_dsc_all) = 1
  /\ err = "IndexError"
  /\ Len(out) = 1

\* C7 as stated: arrays of different lengths end in DimensionMismatchError
C7_Original ==
  (pc = "done" /\ Invertible /\ Len(r_asc_all) # Len(r_dsc_all)) =>
    err = "DimensionMismatchError"

\* C8 as amended: with an empty r_asc_all the loop body never runs and the
\* run completes normally with nothing printed.
C8_EmptyCompletesNormally ==
  (InversionDone /\ Len(r_asc_all) = 0) =>
    (err = "none" /\ out = <<>> /\ i = 0 /\ u = <<>>)

C8_Witness ==
  /\ pc = "done"
  /\ Invertible
  /\ Len(r_asc_all) = 0 /\ Len(r_dsc_all) = 0
  /\ err = "none"
  /\ out = <<>>

\* C8 as stated: an empty r_asc_all ends in InvalidInputError
C8_Original ==
  (pc = "done" /\ Invertible /\ Len(r_asc_all) = 0) =>
    err = "InvalidInputError"

\* C9 as amended: an IndexError at 0-based index k leaves exactly the k
\* results of the earlier targets printed; a LinAlgError, raised before the
\* loop, leaves nothing printed.
C9_EarlierResultsStay ==
  /\ err = "IndexError" =>
       /\ i = Len(r_dsc_all)
       /\ Len(out) = i
       /\ \A k \in 1 .. i : out[k][1] = k
  /\ err = "LinAlgError" => out = <<>>

C9_Witness ==
  /\ pc = "done"
  /\ err = "IndexError"
  /\ i >= 1
  /\ Len(out) = i

\* C9 as stated: a run that ended in an error has printed nothing
C9_Original == err # "none" => out = <<>>

NonNegativeCos(d) == d % 360 <= 90 \/ d % 360 >= 270

\* C10 as amended: the vertical component is non-positive when the incidence
\* is within 90 degrees of vertical, and positive otherwise.
C10_VerticalSign ==
  /\ Len(p_asc) = 3 =>
       IF NonNegativeCos(asc_inc) THEN p_asc[3] <= 0 ELSE p_asc[3] > 0
  /\ Len(p_dsc) = 3 =>
       IF NonNegativeCos(dsc_inc) THEN p_dsc[3] <= 0 ELSE p_dsc[3] > 0

C10_Witness ==
  /\ Len(p_asc) = 3
  /\ asc_azi = DocAscAzi /\ asc_inc = DocAscInc
  /\ p_asc[3] < 0

\* C10 as stated: the vertical component is non-positive for every incidence
C10_Original ==
  /\ Len(p_asc) = 3 => p_asc[3] <= 0
  /\ Len(p_dsc) = 3 => p_dsc[3] <= 0

\* C11: every step of the solve loop leaves P, PTPinv, r_asc_all and r_dsc_all
\* (and the LOS vectors) as they were, and an iteration that completes sets r
\* to the observation pair of its own target and u to the solution computed
\* from the unchanged P and PTPinv.
C11_LoopLeavesInputs ==
  [][pc = "fitted_billy" =>
       /\ P' = P /\ PTPinv' = PTPinv
       /\ r_asc_all' = r_asc_all /\ r_dsc_all' = r_dsc_all
       /\ p_asc' = p_asc /\ p_dsc' = p_dsc
       /\ i' = i + 1 =>
            /\ r' = <<r_asc_all[i'], r_dsc_all[i']>>
            /\ u' = Solve(P, PTPinv, r')]_vars

C11_Witness ==
  /\ pc = "done"
  /\ Invertible
  /\ i = 2
  /\ r_asc_all[1] # r_asc_all[2]
  /\ r = <<r_asc_all[2], r_dsc_all[2]>>
  /\ u = Solve(P, PTPinv, r)

\* PTPinv times PtP is the identity (the determinant times the identity in the
\* adjugate-and-determinant representation)
IsInverseOf(Pinv, A) ==
  /\ Pinv[2] # 0
  /\ MatMul(Pinv[1], A) = <<<<Pinv[2], 0>>, <<0, Pinv[2]>>>>

\* the kernel state the solve loop relies on
KernelConsistent ==
  /\ p_asc = LosVector(asc_azi, asc_inc)
  /\ p_dsc = LosVector(dsc_azi, dsc_inc)
  /\ P = <<<<p_asc[1], p_asc[3]>>, <<p_dsc[1], p_dsc[3]>>>>
  /\ Det2(P) # 0 => IsInverseOf(PTPinv, MatMul(Transpose(P), P))
  /\ out = LoopOutput

\* C12: once every cell has run in document order, re-executing any cell, any
\* number of times in any order, leaves p_asc, p_dsc, P and PTPinv as they are;
\* so at every point where the loop can be run again PTPinv is the inverse of
\* PtP for the current P, the rows of P are the (east, vertical) parts of the
\* current p_asc and p_dsc, and the loop prints what it printed the first time.
C12_StableUnderRerun ==
  /\ [](pc = "done" /\ PTPinv # <<>> => KernelConsistent)
  /\ [][pc = "done" /\ PTPinv # <<>> =>
          /\ p_asc' = p_asc /\ p_dsc' = p_dsc
          /\ P' = P /\ PTPinv' = PTPinv
          /\ out' = out]_vars

C12_Witness ==
  /\ pc = "done"
  /\ reruns = MaxReruns
  /\ Invertible
  /\ Len(out) = MaxTargets
  /\ KernelConsistent

\* the line of leaf k in a table whose coordinate columns are x and y
LeafLine(x, y, k) ==
  <<Fmt_f(x), Fmt_f(y),
    Fmt_f(qt.leaf_means[k]),
    Fmt_f(FMul(Cos(qt.leaf_thetas[k]), -Cos(qt.leaf_phis[k]))),
    Fmt_f(FMul(Cos(qt.leaf_thetas[k]), -Sin(qt.leaf_phis[k]))),
    Fmt_f(-Sin(qt.leaf_thetas[k])),
    k>>

\* C13: for a quadtree of N leaves, the UTM-km table and the lat-long table
\* each have N lines of seven fields, in leaf order; line k of both carries
\* id k, the displacement of leaf k and its three LOS components, and the two
\* lines differ at most in the two coordinate fields.
C13_TablesAgree ==
  qpc = "done" =>
    LET N == Len(qt.leaf_means)
        km == files[OutfileKm]
        ll == files[OutfileLl]
    IN /\ DOMAIN files = {OutfileKm, OutfileLl}
       /\ Len(km) = N /\ Len(ll) = N
       /\ \A k \in 1 .. N :
            /\ Len(km[k]) = 7 /\ Len(ll[k]) = 7
            /\ km[k] = LeafLine(xkm[k], ykm[k], k)
            /\ ll[k] = LeafLine(qt.leaf_focal_points[k][1] + sc.frame.llLon,
                                qt.leaf_focal_points[k][2] + sc.frame.llLat, k)
            /\ \A c \in 3 .. 7 : km[k][c] = ll[k][c]

\* both files are written for a quadtree of MaxLeaves leaves, two of them with
\* the same displacement and LOS, and the coordinate fields differ
C13_Witness ==
  /\ qpc = "done"
  /\ Len(files[OutfileKm]) = MaxLeaves
  /\ Len(files[OutfileLl]) = MaxLeaves
  /\ qt.leaf_means[1] = qt.leaf_means[MaxLeaves]
  /\ qt.leaf_thetas[1] = qt.leaf_thetas[MaxLeaves]
  /\ files[OutfileKm][1][1] # files[OutfileLl][1][1]
  /\ files[OutfileKm][MaxLeaves][7] = MaxLeaves

====
